---------------------------- MODULE Spec2Model ----------------------------
(***************************************************************************)
(* A model of the CHIP-8 emulator: the Chip8 machine (chip8.hpp,           *)
(* chip8.cpp) driven by the host loop of main.cpp.                         *)
(*                                                                         *)
(* The machine state is the data members of class Chip8.  The host loop    *)
(* is modelled by its three phases (execute, process events, render),      *)
(* one action per phase step.  Where the C++ leaves a value indeterminate  *)
(* (members the constructor never writes, reads past the end of an array)  *)
(* the model draws the value from a small set; a write past the end of an  *)
(* array ends the run with status "undefined", the byte written having     *)
(* fallen on one of the members declared after the array.                  *)
(*                                                                         *)
(* Spec and SpecOps run main's loop on two sets of ROM files; SpecApi      *)
(* calls load_program, emulate_op and disassemble as a caller may;         *)
(* SpecDecode applies decode to one opcode.                                *)
(***************************************************************************)
EXTENDS Integers, Naturals, Sequences, FiniteSets, TLC

---------------------------------------------------------------------------
(* Sizes fixed by the source. *)

MemSize == 4096

VideoSize == 2048

StackSize == 16

ProgramStart == \h200

ScreenW == 64

ScreenH == 32

(* The first draw of std::uniform_int_distribution<>(0,255) from a         *)
(* default-seeded std::mt19937, which emulate_op constructs anew on every  *)
(* call: 3499211612 scaled down to 0..255 (its top byte, as libstdc++      *)
(* maps it).                                                               *)
RndDraw == 208

---------------------------------------------------------------------------
(* Bounds of the model. *)

(* Host timer ticks cover 0..MaxFrames elapsed frames. *)
MaxFrames == 2

(* The host delivers key events for the keypad keys of HostKeys. *)
HostKeys == {7, 15}

(* Values an indeterminate byte (uninitialised or read out of range) takes: *)
(* storage that was never written is modelled as all 0x00 or all 0xFF.     *)
UndefBytes == {\h00, \hFF}

(* Values an indeterminate 16-bit stack slot read out of range takes. *)
UndefWords == {\h0000, \hFFFE}

---------------------------------------------------------------------------
(* Bit operations on naturals. *)

RECURSIVE BitAnd(_, _)
BitAnd(a, b) ==
    IF a = 0 \/ b = 0 THEN 0
    ELSE (a % 2) * (b % 2) + 2 * BitAnd(a \div 2, b \div 2)

RECURSIVE BitOr(_, _)
BitOr(a, b) ==
    IF a = 0 THEN b
    ELSE IF b = 0 THEN a
    ELSE (IF a % 2 = 1 \/ b % 2 = 1 THEN 1 ELSE 0) + 2 * BitOr(a \div 2, b \div 2)

RECURSIVE BitXor(_, _)
BitXor(a, b) ==
    IF a = 0 THEN b
    ELSE IF b = 0 THEN a
    ELSE ((a + b) % 2) + 2 * BitXor(a \div 2, b \div 2)

Byte(n) == n % 256

Word(n) == n % 65536

B2N(b) == IF b THEN 1 ELSE 0

---------------------------------------------------------------------------
(* The font table. *)

CHIP8_FONTS ==
    << \hF0, \h90, \h90, \h90, \hF0,
       \h20, \h60, \h20, \h20, \h70,
       \hF0, \h10, \hF0, \h80, \hF0,
       \hF0, \h10, \hF0, \h10, \hF0,
       \h90, \h90, \hF0, \h10, \h10,
       \hF0, \h80, \hF0, \h10, \hF0,
       \hF0, \h80, \hF0, \h90, \hF0,
       \hF0, \h10, \h20, \h40, \h40,
       \hF0, \h90, \hF0, \h90, \hF0,
       \hF0, \h90, \hF0, \h10, \hF0,
       \hF0, \h90, \hF0, \h90, \h90,
       \hE0, \h90, \hE0, \h90, \hE0,
       \hF0, \h80, \h80, \h80, \hF0,
       \hE0, \h90, \h90, \h90, \hE0,
       \hF0, \h80, \hF0, \h80, \hF0,
       \hF0, \h80, \hF0, \h80, \h80 >>

---------------------------------------------------------------------------
(* The machine as emulate_op sees it: a record c of the Chip8 data members *)
(*   mem = m_Memory, V = m_GeneralRegisters, IR/PC/SP = the entries of     *)
(*   m_InternalRegisters, stack = m_Stack, DT/ST = the timers,             *)
(*   keys = m_KeyPressed, AK = m_AwaitingKey, fb = m_VideoMemory,          *)
(*   redraw = m_ShouldRedraw,                                              *)
(* together with what the call did: status ("running", "exit2" after       *)
(* not_handled, "undefined" after a write out of range), the memory        *)
(* addresses (macc) and stack slots (sacc) it accessed, and the last byte  *)
(* it wrote out of range (oobv).                                           *)

InMem(a) == a >= 0 /\ a < MemSize

InStack(i) == i >= 0 /\ i < StackSize

(* m_Memory[a] read: the byte, or an indeterminate byte out of range. *)
MemRead(c, a, ub) == IF InMem(a) THEN c.mem[a] ELSE ub

(* m_Memory[a] = v. *)
MemWrite(c, a, v) ==
    IF InMem(a)
    THEN [c EXCEPT !.mem[a] = v, !.macc = @ \cup {a}]
    ELSE [c EXCEPT !.status = "undefined", !.macc = @ \cup {a}, !.oobv = v]

(* m_InternalRegisters[PC] += k, on a 16-bit word. *)
AdvancePC(c, k) == [c EXCEPT !.PC = Word(@ + k)]

(* The skip idiom: if (cond) PC += 2; PC += 2. *)
SkipIf(c, cond) == AdvancePC(IF cond THEN AdvancePC(c, 2) ELSE c, 2)

(* not_handled(m,l): printf and exit(2). *)
not_handled(c) == [c EXCEPT !.status = "exit2"]

(* 00E0 as dispatched (case 0x0 of lsb&0xf): an empty case. *)
op_clr(c) == c

(* 00EE as it would be without the "+ 2": back to the call itself. *)
op_ret_to_call(c, uw) ==
    LET sp == Word(c.SP + 65535)
        top == IF InStack(sp) THEN c.stack[sp] ELSE uw
    IN  [c EXCEPT !.SP = sp, !.PC = top, !.sacc = @ \cup {sp}]

(* 00EE: PC = m_Stack[--SP] + 2. *)
op_ret(c, uw) ==
    LET sp == Word(c.SP + 65535)
        top == IF InStack(sp) THEN c.stack[sp] ELSE uw
    IN  [c EXCEPT !.SP = sp, !.PC = Word(top + 2), !.sacc = @ \cup {sp}]

(* 1nnn *)
op_jmp(c, nnn) == [c EXCEPT !.PC = nnn]

(* 2nnn: m_Stack[SP++] = PC; PC = nnn. *)
op_call(c, nnn) ==
    LET sp == c.SP
        pushed == IF InStack(sp)
                  THEN [c EXCEPT !.stack[sp] = c.PC]
                  ELSE [c EXCEPT !.status = "undefined", !.oobv = Byte(c.PC)]
    IN  [pushed EXCEPT !.SP = Word(sp + 1), !.PC = nnn, !.sacc = @ \cup {sp}]

(* 3xkk, 4xkk, 5xy0, 9xy0 *)
op_jeq(c, x, kk) == SkipIf(c, c.V[x] = kk)

op_jneq(c, x, kk) == SkipIf(c, c.V[x] # kk)

op_jeqr(c, x, y) == SkipIf(c, c.V[x] = c.V[y])

op_jneqr(c, x, y) == SkipIf(c, c.V[x] # c.V[y])

(* 6xkk, 7xkk *)
op_mov(c, x, kk) == AdvancePC([c EXCEPT !.V[x] = kk], 2)

op_add(c, x, kk) == AdvancePC([c EXCEPT !.V[x] = Byte(@ + kk)], 2)

(* 8xy0 .. 8xy3 *)
op_movr(c, x, y) == AdvancePC([c EXCEPT !.V[x] = c.V[y]], 2)

op_or(c, x, y) == AdvancePC([c EXCEPT !.V[x] = BitOr(@, c.V[y])], 2)

op_and(c, x, y) == AdvancePC([c EXCEPT !.V[x] = BitAnd(@, c.V[y])], 2)

op_xor(c, x, y) == AdvancePC([c EXCEPT !.V[x] = BitXor(@, c.V[y])], 2)

(* 8xy4: tmp = Vx + Vy; VF = (tmp > 0xff); Vx += Vy.  Vx, Vy and VF are    *)
(* references into the register file: the second statement reads the       *)
(* registers as the first left them.                                       *)
op_addr(c, x, y) ==
    LET tmp == c.V[x] + c.V[y]
        V1 == [c.V EXCEPT ![15] = B2N(tmp > 255)]
        V2 == [V1 EXCEPT ![x] = Byte(V1[x] + V1[y])]
    IN  AdvancePC([c EXCEPT !.V = V2], 2)

(* 8xy5: VF = Vx > Vy; Vx -= Vy. *)
op_sub(c, x, y) ==
    LET V1 == [c.V EXCEPT ![15] = B2N(c.V[x] > c.V[y])]
        V2 == [V1 EXCEPT ![x] = Byte(V1[x] - V1[y] + 256)]
    IN  AdvancePC([c EXCEPT !.V = V2], 2)

(* 8xy6: VF = Vx&1; Vx >>= 1. *)
op_shr(c, x) ==
    LET V1 == [c.V EXCEPT ![15] = c.V[x] % 2]
        V2 == [V1 EXCEPT ![x] = V1[x] \div 2]
    IN  AdvancePC([c EXCEPT !.V = V2], 2)

(* 8xy7: VF = Vy > Vx; Vy -= Vx. *)
op_subb(c, x, y) ==
    LET V1 == [c.V EXCEPT ![15] = B2N(c.V[y] > c.V[x])]
        V2 == [V1 EXCEPT ![y] = Byte(V1[y] - V1[x] + 256)]
    IN  AdvancePC([c EXCEPT !.V = V2], 2)

(* 8xyE: VF = Vx >> 7; Vx <<= 1. *)
op_shl(c, x) ==
    LET V1 == [c.V EXCEPT ![15] = c.V[x] \div 128]
        V2 == [V1 EXCEPT ![x] = Byte(V1[x] * 2)]
    IN  AdvancePC([c EXCEPT !.V = V2], 2)

(* Annn, Bnnn, Cxkk *)
op_movi(c, nnn) == AdvancePC([c EXCEPT !.IR = nnn], 2)

op_jmpv0(c, nnn) == [c EXCEPT !.PC = Word(c.V[0] + nnn)]

op_rnd(c, x, kk) == AdvancePC([c EXCEPT !.V[x] = BitAnd(RndDraw, kk)], 2)

---------------------------------------------------------------------------
(* Dxyn.  The inner loop over the 8 bits of one sprite row.  Vx is read    *)
(* from the register file for every pixel, and VF is written for every set *)
(* sprite bit: VF = (pixel == 1), pixel ^= 1.                              *)
RECURSIVE draw_row(_, _, _, _, _)
draw_row(c, x, py, row, w) ==
    IF w = 8 THEN c
    ELSE LET px == (c.V[x] + w) % ScreenW
             idx == ScreenW * py + px
             bit == (row \div (2 ^ (7 - w))) % 2
         IN  IF bit = 1
             THEN draw_row([c EXCEPT !.V[15] = B2N(c.fb[idx] = 1),
                                     !.fb[idx] = BitXor(@, 1)],
                           x, py, row, w + 1)
             ELSE draw_row(c, x, py, row, w + 1)

(* The outer loop over the n rows: py = (Vy + h) % 32 is read once a row,  *)
(* the row byte is *row_pixels = m_Memory[I + h].                          *)
RECURSIVE draw_rows(_, _, _, _, _, _)
draw_rows(c, x, y, n, h, ub) ==
    IF h = n THEN c
    ELSE LET py == (c.V[y] + h) % ScreenH
             a == c.IR + h
             row == MemRead(c, a, ub)
             c1 == [c EXCEPT !.macc = @ \cup {a}]
         IN  draw_rows(draw_row(c1, x, py, row, 0), x, y, n, h + 1, ub)

op_draw(c, x, y, n, ub) ==
    AdvancePC([draw_rows(c, x, y, n, 0, ub) EXCEPT !.redraw = TRUE], 2)

(* m_KeyPressed[Vx]: the key state, or an indeterminate bool out of range. *)
KeyRead(c, k, uk) == IF k < 16 THEN c.keys[k] ELSE uk

(* Ex9E, ExA1 *)
op_jkey(c, x, uk) == SkipIf(c, KeyRead(c, c.V[x], uk))

op_jnkey(c, x, uk) == SkipIf(c, ~KeyRead(c, c.V[x], uk))

(* Fx07, Fx0A, Fx15, Fx18 *)
op_getdelay(c, x) == AdvancePC([c EXCEPT !.V[x] = c.DT], 2)

WaitKeyFlagNoMark(x) == x

(* m_AwaitingKey = 0x80 | x *)
WaitKeyFlag(x) == BitOr(128, x)

op_waitkey(c, x) == AdvancePC([c EXCEPT !.AK = WaitKeyFlag(x)], 2)

op_setdelay(c, x) == AdvancePC([c EXCEPT !.DT = c.V[x]], 2)

op_setsound(c, x) == AdvancePC([c EXCEPT !.ST = c.V[x]], 2)

(* Fx1E: I += Vx; VF = (I + Vx > 0xff), with the I just written. *)
op_addi(c, x) ==
    LET vx == c.V[x]
        ir == Word(c.IR + vx)
    IN  AdvancePC([c EXCEPT !.IR = ir, !.V[15] = B2N(ir + vx > 255)], 2)

(* Fx29: I = 5 * Vx *)
op_spritei(c, x) == AdvancePC([c EXCEPT !.IR = 5 * c.V[x]], 2)

(* Fx33: the three decimal digits of Vx to m_Memory[I], [I+1], [I+2]. *)
op_bcd(c, x) ==
    LET tmp == c.V[x]
        cc == tmp % 10
        b == (tmp \div 10) % 10
        a == (tmp \div 10) \div 10
        c1 == MemWrite(c, c.IR, a)
        c2 == MemWrite(c1, c.IR + 1, b)
        c3 == MemWrite(c2, c.IR + 2, cc)
    IN  AdvancePC(c3, 2)

(* Fx55: *(memv++) = V[p] for p = 0..x, memv starting at &m_Memory[I]. *)
RECURSIVE store_regs(_, _, _)
store_regs(c, x, p) ==
    IF p > x THEN c
    ELSE store_regs(MemWrite(c, c.IR + p, c.V[p]), x, p + 1)

op_store(c, x) ==
    AdvancePC([store_regs(c, x, 0) EXCEPT !.IR = Word(@ + x + 1)], 2)

(* Fx65: V[p] = *(memv++) for p = 0..x. *)
RECURSIVE load_regs(_, _, _, _)
load_regs(c, x, p, ub) ==
    IF p > x THEN c
    ELSE load_regs([c EXCEPT !.V[p] = MemRead(c, c.IR + p, ub),
                             !.macc = @ \cup {c.IR + p}],
                   x, p + 1, ub)

op_load(c, x, ub) ==
    AdvancePC([load_regs(c, x, 0, ub) EXCEPT !.IR = Word(@ + x + 1)], 2)

---------------------------------------------------------------------------
(* Decoding: the bit-fields of the opcode. *)

FieldU(opcode) == (opcode \div 4096) % 16

FieldX(opcode) == (opcode \div 256) % 16

FieldY(opcode) == (opcode \div 16) % 16

FieldKK(opcode) == opcode % 256

FieldN(opcode) == opcode % 16

FieldNNN(opcode) == opcode % 4096

(* The switch of emulate_op on an already fetched opcode.  ub, uw and uk   *)
(* are the indeterminate byte, stack word and key state a read out of      *)
(* range yields.                                                           *)
dispatch(c, opcode, ub, uw, uk) ==
    LET u == FieldU(opcode)
        x == FieldX(opcode)
        y == FieldY(opcode)
        kk == FieldKK(opcode)
        n == FieldN(opcode)
        nnn == FieldNNN(opcode)
        lsb == opcode % 256
    IN  CASE u = 0 ->
                (CASE n = 0 -> op_clr(c)
                   [] n = 14 -> op_ret(c, uw)
                   [] OTHER -> not_handled(c))
          [] u = 1 -> op_jmp(c, nnn)
          [] u = 2 -> op_call(c, nnn)
          [] u = 3 -> op_jeq(c, x, kk)
          [] u = 4 -> op_jneq(c, x, kk)
          [] u = 5 -> op_jeqr(c, x, y)
          [] u = 6 -> op_mov(c, x, kk)
          [] u = 7 -> op_add(c, x, kk)
          [] u = 8 ->
                (CASE n = 0 -> op_movr(c, x, y)
                   [] n = 1 -> op_or(c, x, y)
                   [] n = 2 -> op_and(c, x, y)
                   [] n = 3 -> op_xor(c, x, y)
                   [] n = 4 -> op_addr(c, x, y)
                   [] n = 5 -> op_sub(c, x, y)
                   [] n = 6 -> op_shr(c, x)
                   [] n = 7 -> op_subb(c, x, y)
                   [] n = 14 -> op_shl(c, x)
                   [] OTHER -> not_handled(c))
          [] u = 9 -> op_jneqr(c, x, y)
          [] u = 10 -> op_movi(c, nnn)
          [] u = 11 -> op_jmpv0(c, nnn)
          [] u = 12 -> op_rnd(c, x, kk)
          [] u = 13 -> op_draw(c, x, y, n, ub)
          [] u = 14 ->
                (CASE lsb = \h9E -> op_jkey(c, x, uk)
                   [] lsb = \hA1 -> op_jnkey(c, x, uk)
                   [] OTHER -> c)
          [] OTHER ->
                (CASE lsb = \h07 -> op_getdelay(c, x)
                   [] lsb = \h0A -> op_waitkey(c, x)
                   [] lsb = \h15 -> op_setdelay(c, x)
                   [] lsb = \h18 -> op_setsound(c, x)
                   [] lsb = \h1E -> op_addi(c, x)
                   [] lsb = \h29 -> op_spritei(c, x)
                   [] lsb = \h33 -> op_bcd(c, x)
                   [] lsb = \h55 -> op_store(c, x)
                   [] lsb = \h65 -> op_load(c, x, ub)
                   [] OTHER -> not_handled(c))

(* The fetch: opcode = (m_Memory[PC] << 8) | m_Memory[PC+1]. *)
fetch(c, f1, f2) == MemRead(c, c.PC, f1) * 256 + MemRead(c, c.PC + 1, f2)

(* What a read of m_Memory[a] can yield. *)
ReadChoices(a) == IF InMem(a) THEN {0} ELSE UndefBytes

(* Whether executing opcode reads data memory, the stack or the key state  *)
(* out of range.                                                           *)
DataChoices(c, opcode) ==
    LET u == FieldU(opcode)
        last == IF u = 13 THEN c.IR + FieldN(opcode) - 1 ELSE c.IR + FieldX(opcode)
    IN  IF (u = 13 \/ (u = 15 /\ opcode % 256 = \h65)) /\ ~InMem(last)
        THEN UndefBytes ELSE {0}

StackChoices(c, opcode) ==
    IF FieldU(opcode) = 0 /\ FieldN(opcode) = 14 /\ ~InStack(Word(c.SP + 65535))
    THEN UndefWords ELSE {0}

KeyChoices(c, opcode) ==
    IF FieldU(opcode) = 14 /\ c.V[FieldX(opcode)] > 15 THEN BOOLEAN ELSE {FALSE}

(* Chip8::decode(i, msb, lsb): the line "%04x:  %02x %02x  =>  " of i, msb *)
(* and lsb, followed by what the matching case appends: a mnemonic, the    *)
(* format of its operands and the operands.  A case that matches nothing   *)
(* appends nothing.                                                        *)
Line(i, msb, lsb, mnemonic, fmt, args) ==
    [ prefix |-> << i, msb, lsb >>, mnemonic |-> mnemonic, fmt |-> fmt,
      args |-> args ]

decode(i, msb, lsb) ==
    LET nib == msb \div 16
        lo == msb % 16
        hi == lsb \div 16
        lastnib == lsb % 16
        ADDR == lo * 256 + lsb
        L(mnemonic, fmt, args) == Line(i, msb, lsb, mnemonic, fmt, args)
        Nothing == L("", "", << >>)
        RR(mnemonic) == L(mnemonic, "V%01X, V%01X", << lo, hi >>)
        RK(mnemonic) == L(mnemonic, "V%01X, 0x%02x", << lo, lsb >>)
        R(mnemonic) == L(mnemonic, "V%01X", << lo >>)
    IN  CASE nib = 0 ->
                (CASE lsb = \hE0 -> L("clear", "", << >>)
                   [] lsb = \hEE -> L("ret", "", << >>)
                   [] OTHER -> Nothing)
          [] nib = 1 -> L("jmp", "0x%03x", << ADDR >>)
          [] nib = 2 -> L("call", "0x%02x", << ADDR >>)
          [] nib = 3 -> RK("jeq")
          [] nib = 4 -> RK("jneq")
          [] nib = 5 -> RR("jeqr")
          [] nib = 6 -> RK("mov")
          [] nib = 7 -> RK("add")
          [] nib = 8 ->
                (CASE lastnib = 0 -> RR("mov")
                   [] lastnib = 1 -> RR("or")
                   [] lastnib = 2 -> RR("and")
                   [] lastnib = 3 -> RR("xor")
                   [] lastnib = 4 -> RR("addr")
                   [] lastnib = 5 -> RR("sub")
                   [] lastnib = 6 -> RR("shr")
                   [] lastnib = 7 -> RR("subb")
                   [] lastnib = 14 -> RR("shl")
                   [] OTHER -> Nothing)
          [] nib = 9 -> RR("jneqr")
          [] nib = 10 -> L("mov", "I, [0x%03x]", << ADDR >>)
          [] nib = 11 -> L("jmp", "0x%03x+(V0)", << ADDR >>)
          [] nib = 12 -> L("rand", "V%01X, 0x%02X", << lo, lsb >>)
          [] nib = 13 -> L("draw", "V%01X, V%01X, 0x%01x", << lo, hi, lastnib >>)
          [] nib = 14 ->
                (CASE lsb = \h9E -> R("jkey")
                   [] lsb = \hA1 -> R("jnkey")
                   [] OTHER -> Nothing)
          [] nib = 15 ->
                (CASE lsb = \h07 -> R("getdelay")
                   [] lsb = \h0A -> R("waitkey")
                   [] lsb = \h15 -> R("setdelay")
                   [] lsb = \h18 -> R("setsound")
                   [] lsb = \h1E -> L("mov", "I, V%01X", << lo >>)
                   [] lsb = \h29 -> L("spritei", "I, V%01X", << lo >>)
                   [] lsb = \h33 -> L("bcd", "[I], V%01X", << lo >>)
                   [] lsb = \h55 -> L("mov", "[I], V0-V%01X", << lo >>)
                   [] lsb = \h65 -> L("mov", "V0-V%01X, [I]", << lo >>)
                   [] OTHER -> Nothing)
          [] OTHER -> L("unknown", "", << >>)

(* A write past the end of m_Memory or m_Stack lands on whatever the      *)
(* build placed there.  The data members declared after the two arrays    *)
(* are the candidates; the model lets the byte fall on nothing the        *)
(* machine reads back, on a timer, on a key or on a video cell.           *)
Victims == {"none", "m_DelayTimer", "m_SoundTimer", "m_KeyPressed", "m_VideoMemory"}

Clobber(c, victim) ==
    CASE victim = "m_DelayTimer" -> [c EXCEPT !.DT = c.oobv]
      [] victim = "m_SoundTimer" -> [c EXCEPT !.ST = c.oobv]
      [] victim = "m_KeyPressed" -> [c EXCEPT !.keys[0] = (c.oobv # 0)]
      [] victim = "m_VideoMemory" -> [c EXCEPT !.fb[0] = c.oobv]
      [] OTHER -> c

(* What a call that ended as r can have left. *)
Outcomes(r) ==
    IF r.status = "undefined" THEN { Clobber(r, victim) : victim \in Victims }
    ELSE {r}

(* One call of emulate_op on machine c: the set of machines it can leave. *)
emulate_op(c) ==
    LET c0(opcode) ==
            [c EXCEPT !.macc = {c.PC, c.PC + 1}, !.sacc = {},
                      !.log = decode(c.PC, opcode \div 256, opcode % 256)]
    IN  UNION { UNION { UNION { Outcomes(dispatch(c0(fetch(c, f1, f2)),
                                                  fetch(c, f1, f2), ub, uw, uk)) :
                            ub \in DataChoices(c, fetch(c, f1, f2)),
                            uw \in StackChoices(c, fetch(c, f1, f2)),
                            uk \in KeyChoices(c, fetch(c, f1, f2)) } :
                        f2 \in ReadChoices(c.PC + 1) } :
                f1 \in ReadChoices(c.PC) }

---------------------------------------------------------------------------
(* State. *)

VARIABLES
    m_Memory,             \* std::array<byte, 4096>
    m_InternalRegisters,  \* [IR, PC, SP, VR]: std::array<word, 4>
    m_GeneralRegisters,   \* V0..VF
    m_Stack,              \* std::array<word, 16>
    program_size,
    m_DelayTimer,
    m_SoundTimer,
    m_KeyPressed,
    m_AwaitingKey,
    m_VideoMemory,        \* std::array<byte, 2048>
    m_ShouldRedraw,
    running,              \* main: the loop flag
    paused,               \* main
    msg,                  \* main
    phase,                \* main: where the host is
    status,               \* how the process stands
    stepOutcome,          \* what the last execute phase did
    memAccess,            \* m_Memory indices the last emulate_op accessed
    stackAccess,          \* m_Stack indices the last emulate_op accessed
    logged,               \* the line emulate_op last handed to m_Logger
    shown,                \* main: the video memory renderTo was last given
    disassembly           \* the lines disassemble() last returned

machineVars ==
    << m_Memory, m_InternalRegisters, m_GeneralRegisters, m_Stack,
       m_DelayTimer, m_SoundTimer, m_KeyPressed, m_AwaitingKey,
       m_VideoMemory, m_ShouldRedraw >>

vars ==
    << m_Memory, m_InternalRegisters, m_GeneralRegisters, m_Stack,
       program_size, m_DelayTimer, m_SoundTimer, m_KeyPressed, m_AwaitingKey,
       m_VideoMemory, m_ShouldRedraw, running, paused, msg, phase, status,
       stepOutcome, memAccess, stackAccess, logged, shown, disassembly >>

IR == m_InternalRegisters.IR

PC == m_InternalRegisters.PC

SP == m_InternalRegisters.SP

VF == m_GeneralRegisters[15]

(* The machine as the record emulate_op works on. *)
Machine ==
    [ mem |-> m_Memory, V |-> m_GeneralRegisters, IR |-> IR, PC |-> PC,
      SP |-> SP, stack |-> m_Stack, DT |-> m_DelayTimer, ST |-> m_SoundTimer,
      keys |-> m_KeyPressed, AK |-> m_AwaitingKey, fb |-> m_VideoMemory,
      redraw |-> m_ShouldRedraw, status |-> "running", macc |-> {}, sacc |-> {},
      oobv |-> 0, log |-> logged ]

(* The machine after the call. *)
Becomes(c) ==
    /\ m_Memory' = c.mem
    /\ m_GeneralRegisters' = c.V
    /\ m_InternalRegisters' =
           [m_InternalRegisters EXCEPT !.IR = c.IR, !.PC = c.PC, !.SP = c.SP]
    /\ m_Stack' = c.stack
    /\ m_DelayTimer' = c.DT
    /\ m_SoundTimer' = c.ST
    /\ m_KeyPressed' = c.keys
    /\ m_AwaitingKey' = c.AK
    /\ m_VideoMemory' = c.fb
    /\ m_ShouldRedraw' = c.redraw

---------------------------------------------------------------------------
(* Chip8::Chip8().  The constructor copies the font, zeroes the video      *)
(* memory, the registers and the stack and sets PC; m_Memory past the      *)
(* font, m_KeyPressed, m_ShouldRedraw and program_size have no initialiser *)
(* and are left indeterminate.                                             *)

UndefSizes == {0, 4}

Init ==
    /\ \E fill \in UndefBytes :
           /\ m_Memory = [a \in 0 .. MemSize - 1 |->
                             IF a < 80 THEN CHIP8_FONTS[a + 1] ELSE fill]
           /\ m_KeyPressed = [k \in 0 .. 15 |-> fill # 0]
           /\ m_ShouldRedraw = (fill # 0)
    /\ m_VideoMemory = [i \in 0 .. VideoSize - 1 |-> 0]
    /\ m_GeneralRegisters = [r \in 0 .. 15 |-> 0]
    /\ m_InternalRegisters = [IR |-> 0, PC |-> ProgramStart, SP |-> 0, VR |-> 0]
    /\ m_Stack = [i \in 0 .. StackSize - 1 |-> 0]
    /\ m_DelayTimer = 0
    /\ m_SoundTimer = 0
    /\ m_AwaitingKey = 0
    /\ program_size \in UndefSizes
    /\ running = TRUE
    /\ paused = FALSE
    /\ msg = 0
    /\ phase = "load"
    /\ status = "running"
    /\ stepOutcome = "none"
    /\ memAccess = {}
    /\ stackAccess = {}
    /\ logged = Line(0, 0, 0, "", "", << >>)
    /\ shown = << >>
    /\ disassembly = << >>

---------------------------------------------------------------------------
(* Chip8::load_program: program_size bytes are copied to                   *)
(* m_Memory[i + m_InternalRegisters[PC]].                                  *)

load_bytes(rom) ==
    [a \in 0 .. MemSize - 1 |->
        IF a >= PC /\ a < PC + Len(rom) THEN rom[a - PC + 1] ELSE m_Memory[a]]

(* main: the ROM named on the command line is loaded; a file that is empty *)
(* or cannot be opened makes load_program return false and main exit(-1).  *)
LoadProgram(rom) ==
    /\ phase = "load"
    /\ status = "running"
    /\ program_size' = Len(rom)
    /\ IF Len(rom) = 0
       THEN /\ status' = "load_failed"
            /\ phase' = "done"
            /\ m_Memory' = m_Memory
       ELSE /\ m_Memory' = load_bytes(rom)
            /\ status' = IF PC + Len(rom) > MemSize THEN "undefined" ELSE "running"
            /\ phase' = IF PC + Len(rom) > MemSize THEN "done" ELSE "exec"
    /\ UNCHANGED << m_InternalRegisters, m_GeneralRegisters, m_Stack,
                    m_DelayTimer, m_SoundTimer, m_KeyPressed, m_AwaitingKey,
                    m_VideoMemory, m_ShouldRedraw, running, paused, msg,
                    stepOutcome, memAccess, stackAccess, logged,
                    shown, disassembly >>

(* main: no ROM path was given, load_program is not called. *)
SkipLoad ==
    /\ phase = "load"
    /\ status = "running"
    /\ phase' = "exec"
    /\ UNCHANGED << machineVars, program_size, running, paused, msg, status,
                    stepOutcome, memAccess, stackAccess, logged,
                    shown, disassembly >>

---------------------------------------------------------------------------
(* main, "Execute Instruction": emulate_op is called unless the machine    *)
(* awaits a key or the host is paused; then the pause message.             *)

ShouldStepIgnoringWait == ~paused

ShouldStep == m_AwaitingKey = 0 /\ ~paused

ExecPhase ==
    /\ phase = "exec"
    /\ status = "running"
    /\ IF ShouldStep
       THEN \E c \in emulate_op(Machine) :
                /\ Becomes(c)
                /\ status' = c.status
                /\ phase' = IF c.status = "running" THEN "events" ELSE "done"
                /\ memAccess' = c.macc
                /\ stackAccess' = c.sacc
                /\ logged' = c.log
                /\ stepOutcome' = "executed"
       ELSE /\ UNCHANGED << machineVars, status, memAccess, stackAccess, logged >>
            /\ phase' = "events"
            /\ stepOutcome' = IF paused THEN "paused" ELSE "suspended"
    /\ msg' = IF paused /\ msg = 0 THEN 1 ELSE msg
    /\ UNCHANGED << program_size, running, paused, shown, disassembly >>

---------------------------------------------------------------------------
(* main, "Process events": one action per event SDL_PollEvent hands over.  *)

EventGuard == phase = "events" /\ status = "running"

(* SDL_QUIT, or a key mapped to -1 (escape), down or up. *)
QuitEvent ==
    /\ EventGuard
    /\ running' = FALSE
    /\ UNCHANGED << machineVars, program_size, paused, msg, phase, status,
                    stepOutcome, memAccess, stackAccess, logged,
                    shown, disassembly >>

(* A key the keymap does not hold: break. *)
UnmappedKeyEvent ==
    /\ EventGuard
    /\ UNCHANGED vars

(* SDL_KEYDOWN of the key mapped to -2 (P). *)
PauseKeyDown ==
    /\ EventGuard
    /\ paused' = ~paused
    /\ msg' = 0
    /\ UNCHANGED << machineVars, program_size, running, phase, status,
                    stepOutcome, memAccess, stackAccess, logged,
                    shown, disassembly >>

(* SDL_KEYUP of the key mapped to -2: the test for -2 asks for KEYDOWN, so *)
(* control reaches SetKeyPressed(-2, false), a write of 0 two bytes before *)
(* m_KeyPressed: on one of the timers declared just before it, or on       *)
(* nothing the machine reads back.                                         *)
PauseKeyUp ==
    /\ EventGuard
    /\ status' = "undefined"
    /\ phase' = "done"
    /\ \E victim \in {"none", "m_DelayTimer", "m_SoundTimer"} :
           /\ m_DelayTimer' = IF victim = "m_DelayTimer" THEN 0 ELSE m_DelayTimer
           /\ m_SoundTimer' = IF victim = "m_SoundTimer" THEN 0 ELSE m_SoundTimer
    /\ UNCHANGED << m_Memory, m_InternalRegisters, m_GeneralRegisters, m_Stack,
                    m_KeyPressed, m_AwaitingKey, m_VideoMemory, m_ShouldRedraw,
                    program_size, running, paused, msg,
                    stepOutcome, memAccess, stackAccess, logged,
                    shown, disassembly >>

(* GetAwaitingKey() & 0x7f *)
AwaitedRegister(ak) == BitAnd(ak, 127)

(* SDL_KEYDOWN / SDL_KEYUP of a key mapped to keypad key k:                *)
(* SetKeyPressed(k, down); on a key-down while a key is awaited,           *)
(* V[GetAwaitingKey() & 0x7f] = k and SetAwaitingKey(0).                   *)
KeyEvent(k, down) ==
    /\ EventGuard
    /\ m_KeyPressed' = [m_KeyPressed EXCEPT ![k] = down]
    /\ IF down /\ m_AwaitingKey # 0
       THEN /\ m_AwaitingKey' = 0
            /\ IF AwaitedRegister(m_AwaitingKey) < 16
               THEN /\ m_GeneralRegisters' =
                          [m_GeneralRegisters EXCEPT
                              ![AwaitedRegister(m_AwaitingKey)] = k]
                    /\ UNCHANGED << status, phase >>
               ELSE /\ status' = "undefined"
                    /\ phase' = "done"
                    /\ UNCHANGED m_GeneralRegisters
       ELSE UNCHANGED << m_AwaitingKey, m_GeneralRegisters, status, phase >>
    /\ UNCHANGED << m_Memory, m_InternalRegisters, m_Stack, program_size,
                    m_DelayTimer, m_SoundTimer, m_VideoMemory, m_ShouldRedraw,
                    running, paused, msg, stepOutcome, memAccess, stackAccess, logged,
                    shown, disassembly >>

(* SDL_PollEvent returns 0: the event loop ends. *)
EventsDone ==
    /\ EventGuard
    /\ phase' = "render"
    /\ UNCHANGED << machineVars, program_size, running, paused, msg, status,
                    stepOutcome, memAccess, stackAccess, logged,
                    shown, disassembly >>

---------------------------------------------------------------------------
(* main, "Render": frames elapsed since the last tick; when frames > 0 and *)
(* the host is not paused the timers are lowered by min(frames, timer)     *)
(* and, if ShouldRedraw(), the video memory is rendered and StopDrawing()  *)
(* is called.  Then the loop condition.                                    *)

Min(a, b) == IF a < b THEN a ELSE b

TimerAfter(timer, frames) == Byte(timer - Min(frames, timer) + 256)

RenderPhase(frames) ==
    /\ phase = "render"
    /\ status = "running"
    /\ IF frames > 0 /\ ~paused
       THEN /\ m_SoundTimer' = TimerAfter(m_SoundTimer, frames)
            /\ m_DelayTimer' = TimerAfter(m_DelayTimer, frames)
            /\ m_ShouldRedraw' = FALSE
            /\ shown' = IF m_ShouldRedraw THEN m_VideoMemory ELSE shown
       ELSE UNCHANGED << m_SoundTimer, m_DelayTimer, m_ShouldRedraw, shown >>
    /\ phase' = IF running THEN "exec" ELSE "done"
    /\ status' = IF running THEN "running" ELSE "quit"
    /\ UNCHANGED << m_Memory, m_InternalRegisters, m_GeneralRegisters, m_Stack,
                    program_size, m_KeyPressed, m_AwaitingKey, m_VideoMemory,
                    running, paused, msg, stepOutcome, memAccess, stackAccess,
                    logged, disassembly >>

---------------------------------------------------------------------------
(* The ROM files the model loads.  A ROM is a sequence of bytes; Assemble  *)
(* lays 16-bit opcodes out big-endian, as the fetch reads them.            *)

RECURSIVE Assemble(_)
Assemble(ws) ==
    IF ws = << >> THEN << >>
    ELSE << Head(ws) \div 256, Head(ws) % 256 >> \o Assemble(Tail(ws))

RegX(x) == 256 * x

RegY(y) == 16 * y

(* The scenario of the specification: V0 = 5, V1 = 3, V0 += V1, then 0000. *)
ScenarioRom == Assemble(<< \h6005, \h6103, \h8014, \h0000 >>)

(* Vx = 0x33; Fx0A; Vx += 1; loop. *)
WaitKeyRoms ==
    { Assemble(<< \h6033 + RegX(x), \hF00A + RegX(x), \h7001 + RegX(x), \h1206 >>) :
        x \in {0, 2, 15} }

(* Opcodes outside the opcode table, and neighbours inside it. *)
OddOpcodes ==
    { \h0120, \h00FE, \h0001, \h5011, \h9121, \h8008, \h800F, \hE000, \hE19F,
      \hF000, \hF0FF }

OddRoms == { Assemble(<< op, \h1202 >>) : op \in OddOpcodes }

(* A call to itself, a return with nothing pushed, a call and its return. *)
StackRoms ==
    { Assemble(<< \h2200 >>), Assemble(<< \h00EE >>),
      Assemble(<< \h2204, \h1202, \h00EE >>) }

(* I = a; V0 = 123; then a memory-indexed opcode; loop. *)
MemRoms ==
    { Assemble(<< \hA000 + a, \h607B, op, \h1206 >>) :
        a \in {\h004, \h300, \hFFE, \hFFF},
        op \in {\hF033, \hF155, \hF165, \hD002} }

(* Jumps to the end of memory and past it; a skip written to 0xFFE and     *)
(* executed there.                                                         *)
JumpRoms ==
    { Assemble(<< \h60FF, \hBFFF >>), Assemble(<< \h6001, \hBFFF >>),
      Assemble(<< \h1FFF >>), Assemble(<< \h1FFE >>),
      Assemble(<< \hAFFE, \h6030, \h6130, \hF155, \h1FFE >>) }

(* Timers and keys. *)
TimerRom == Assemble(<< \h6003, \hF015, \hF018, \hF107, \h1208 >>)

KeyRoms ==
    { Assemble(<< \h6000 + k, \hE09E, \hE0A1, \h1206 >>) : k \in {7, 32} }

(* I = sprite; Vx = vx; Vy = vy; Dxyn twice; 00E0; loop; the sprite. *)
DrawRom(x, y, vx, vy, sprite) ==
    Assemble(<< \hA20E, \h6000 + RegX(x) + vx, \h6000 + RegX(y) + vy,
                \hD000 + RegX(x) + RegY(y) + Len(sprite),
                \hD000 + RegX(x) + RegY(y) + Len(sprite),
                \h00E0, \h120C >>) \o sprite

Sprites == { << \h80 >>, << \hC0 >>, << \hFF, \h81 >>, << \h00 >> }

DrawRoms ==
    { DrawRom(xy[1], xy[2], at[1], at[2], s) :
        xy \in { <<0, 1>>, <<15, 1>>, <<1, 15>> },
        at \in { <<0, 0>>, <<10, 0>>, <<62, 31>> }, s \in Sprites }

(* 0xC0 drawn at (0,0) and again at (1,0); VF = 1 and an all-zero sprite. *)
OverlapRoms ==
    { Assemble(<< \hA20E, \h6000, \h6100, \hD011, \h7001, \hD011, \h120C >>)
          \o << \hC0 >>,
      Assemble(<< \hA208, \h6F01, \hD011, \h1206 >>) \o << \h00 >> }

Roms ==
    {ScenarioRom, TimerRom} \cup WaitKeyRoms \cup OddRoms \cup StackRoms
      \cup MemRoms \cup JumpRoms \cup KeyRoms \cup DrawRoms \cup OverlapRoms
      \cup { << >> }

---------------------------------------------------------------------------

Next ==
    \/ \E rom \in Roms : LoadProgram(rom)
    \/ SkipLoad
    \/ ExecPhase
    \/ QuitEvent
    \/ UnmappedKeyEvent
    \/ PauseKeyDown
    \/ PauseKeyUp
    \/ \E k \in HostKeys, down \in BOOLEAN : KeyEvent(k, down)
    \/ EventsDone
    \/ \E frames \in 0 .. MaxFrames : RenderPhase(frames)

Spec == Init /\ [][Next]_vars

---------------------------------------------------------------------------
(* A second set of ROM files, run by the same host loop: register          *)
(* arithmetic on every kind of register pair, nested calls, Fx1E, Fx29,    *)
(* the timers, and stores through an index register moved past memory.     *)

(* Vx = a; Vy = b; 8xyn; loop. *)
ArithRom(x, y, a, b, n) ==
    Assemble(<< \h6000 + RegX(x) + a, \h6000 + RegX(y) + b,
                \h8000 + RegX(x) + RegY(y) + n, \h1206 >>)

ArithRoms ==
    { ArithRom(xy[1], xy[2], ab[1], ab[2], n) :
        xy \in { <<0, 1>>, <<0, 15>>, <<15, 0>>, <<1, 1>>, <<15, 15>> },
        ab \in { <<200, 100>>, <<5, 9>> }, n \in {4, 5, 7} }

(* k calls, each to the next call, then as many returns; the call at      *)
(* 0x200 + 4*i is followed by the 00EE its callee returns to, the first    *)
(* one by a loop.                                                          *)
NestRom(k) ==
    Assemble(<< \h2204, \h1202 >>)
      \o Assemble([i \in 1 .. 2 * (k - 1) |->
                      IF i % 2 = 1 THEN \h2200 + 2 * (i + 1) + 4 ELSE \h00EE])
      \o Assemble(<< \h00EE >>)

NestRoms == { NestRom(k) : k \in {1, 2, StackSize} }

(* I = a; Vx = v; Fx1E; loop. *)
AddIRoms ==
    { Assemble(<< \hA000 + av[1], \h6000 + RegX(x) + av[2], \hF01E + RegX(x),
                  \h1206 >>) :
        av \in { <<\h0F0, 8>>, <<\h000, 5>>, <<\h0FF, 1>>, <<\hFFF, 255>> },
        x \in {0, 15} }

(* Vx = d; Fx29; loop. *)
SpriteIRoms ==
    { Assemble(<< \h6000 + RegX(x) + d, \hF029 + RegX(x), \h1204 >>) :
        d \in {0, 7, 15}, x \in {0, 3} }

(* I = 0xFFF + 0x41 = 4160; Fx33 of 0x41 there.  I = 4; Fx33, Fx55. *)
FarStoreRom == Assemble(<< \hAFFF, \h6041, \hF01E, \hF033, \h1208 >>)

(* I = 0xFFF + 0xFF = 4350; Fx33 of 0xFF there. *)
FarVideoRom == Assemble(<< \hAFFF, \h60FF, \hF01E, \hF033, \h1208 >>)

FontStoreRoms ==
    { Assemble(<< \hA004, \h607B, op, \h1206 >>) : op \in {\hF033, \hF055} }

(* Cxkk twice with the same kk, into two registers or into one; loop. *)
RandRoms ==
    { Assemble(<< \hC000 + RegX(xy[1]) + kk, \hC000 + RegX(xy[2]) + kk, \h1204 >>) :
        xy \in { <<0, 1>>, <<2, 2>> }, kk \in {\hFF, \h0F} }

OpsRoms ==
    ArithRoms \cup NestRoms \cup AddIRoms \cup SpriteIRoms \cup FontStoreRoms
      \cup RandRoms \cup {FarStoreRom, FarVideoRom, TimerRom}

NextOps ==
    \/ \E rom \in OpsRoms : LoadProgram(rom)
    \/ ExecPhase
    \/ QuitEvent
    \/ UnmappedKeyEvent
    \/ PauseKeyDown
    \/ PauseKeyUp
    \/ \E k \in HostKeys, down \in BOOLEAN : KeyEvent(k, down)
    \/ EventsDone
    \/ \E frames \in 0 .. MaxFrames : RenderPhase(frames)

SpecOps == Init /\ [][NextOps]_vars

---------------------------------------------------------------------------
(* The Chip8 object used through its public member functions by a caller   *)
(* other than main's loop: load_program, calls of emulate_op and           *)
(* disassemble, one more load_program, calls of emulate_op and             *)
(* disassemble.  phase is the caller's position:                           *)
(* "load" before the first load, "run" after it, "rerun" after the second. *)

(* Chip8::load_program on a file holding rom. *)
load_program(rom) ==
    /\ phase \in {"load", "run"}
    /\ status = "running"
    /\ phase' = IF phase = "load" THEN "run" ELSE "rerun"
    /\ program_size' = Len(rom)
    /\ IF Len(rom) = 0
       THEN /\ stepOutcome' = "load_failed"
            /\ UNCHANGED << m_Memory, status >>
       ELSE /\ stepOutcome' = "loaded"
            /\ m_Memory' = load_bytes(rom)
            /\ status' = IF PC + Len(rom) > MemSize THEN "undefined" ELSE "running"
    /\ UNCHANGED << m_InternalRegisters, m_GeneralRegisters, m_Stack,
                    m_DelayTimer, m_SoundTimer, m_KeyPressed, m_AwaitingKey,
                    m_VideoMemory, m_ShouldRedraw, running, paused, msg,
                    memAccess, stackAccess, logged,
                    shown, disassembly >>

(* A call of Chip8::emulate_op. *)
StepCall ==
    /\ phase \in {"run", "rerun"}
    /\ status = "running"
    /\ \E c \in emulate_op(Machine) :
           /\ Becomes(c)
           /\ status' = c.status
           /\ memAccess' = c.macc
           /\ stackAccess' = c.sacc
           /\ logged' = c.log
    /\ stepOutcome' = "executed"
    /\ UNCHANGED << program_size, running, paused, msg, phase, shown, disassembly >>

(* Chip8::disassemble: for (int i = PC; i < PC + program_size; i += 2) a   *)
(* line decode(i, m_Memory[i], m_Memory[i+1]).  PC here is the enumerator  *)
(* of enum InternalRegisters, not the register it names.                   *)
EnumPC == 1

DisassembledAddresses ==
    { i \in EnumPC .. EnumPC + program_size - 1 : (i - EnumPC) % 2 = 0 }

disassemble(ub) ==
    [k \in 1 .. Cardinality(DisassembledAddresses) |->
        LET i == EnumPC + 2 * (k - 1)
        IN  decode(i, MemRead(Machine, i, ub), MemRead(Machine, i + 1, ub))]

(* A call of Chip8::disassemble. *)
DisassembleCall ==
    /\ phase \in {"run", "rerun"}
    /\ status = "running"
    /\ \E ub \in ReadChoices(EnumPC + program_size) : disassembly' = disassemble(ub)
    /\ memAccess' = UNION { {i, i + 1} : i \in DisassembledAddresses }
    /\ stepOutcome' = "disassembled"
    /\ UNCHANGED << machineVars, program_size, running, paused, msg, phase,
                    status, stackAccess, logged, shown >>

(* A file one byte longer than the room from 0x200 to the end of memory,   *)
(* a file that just fits, two short programs and an empty file.            *)
RoomFrom200 == MemSize - ProgramStart

FilledRom(len) == [i \in 1 .. len |-> IF i % 2 = 1 THEN \h12 ELSE \h00]

ApiRoms ==
    { FilledRom(RoomFrom200 + 1), FilledRom(RoomFrom200),
      Assemble(<< \h6005, \h6106, \h1204 >>),
      Assemble(<< \hA123, \h6A03, \hFA15, \h220A, \h1208, \h00EE >>), << >> }

NextApi ==
    \/ \E rom \in ApiRoms : load_program(rom)
    \/ StepCall
    \/ DisassembleCall

SpecApi == Init /\ [][NextApi]_vars

---------------------------------------------------------------------------
(* Chip8::decode as a function of its arguments: one call, on a freshly    *)
(* constructed machine, for the instruction at 0x200; the line it returns  *)
(* is kept in logged.  The opcodes are those of every family u and every   *)
(* low byte, with the x field (a register number wherever decode and       *)
(* emulate_op look at it) taken from OperandXs.                            *)
OperandXs == {0, 5, 15}

Opcodes == { 4096 * u + 256 * x + lsb : u \in 0 .. 15, x \in OperandXs, lsb \in 0 .. 255 }

InitDecode == Init /\ m_Memory[MemSize - 1] = 0 /\ program_size = 0

DecodeCall(i, opcode) ==
    /\ phase = "load"
    /\ phase' = "decoded"
    /\ logged' = decode(i, opcode \div 256, opcode % 256)
    /\ UNCHANGED << machineVars, program_size, running, paused, msg, status,
                    stepOutcome, memAccess, stackAccess, shown, disassembly >>

NextDecode == \E opcode \in Opcodes : DecodeCall(ProgramStart, opcode)

SpecDecode == InitDecode /\ [][NextDecode]_vars

---------------------------------------------------------------------------
(* Vocabulary of the properties. *)

(* The opcode stored at address a. *)
OpcodeAt(a) == m_Memory[a] * 256 + m_Memory[a + 1]

(* This step is an execute phase in which emulate_op ran. *)
Executes == phase = "exec" /\ phase' # "exec" /\ stepOutcome' = "executed"

(* This step executes an instruction fetched from memory, of family u. *)
ExecutesFamily(u) == Executes /\ InMem(PC + 1) /\ FieldU(OpcodeAt(PC)) = u

IsWaitKey(op) == FieldU(op) = 15 /\ op % 256 = \h0A

(* The opcode table of the specification (section 4.2). *)
InOpcodeTable(op) ==
    LET u == FieldU(op)
        n == FieldN(op)
        lsb == op % 256
    IN  CASE u = 0 -> op \in {\h00E0, \h00EE}
          [] u \in {5, 9} -> n = 0
          [] u = 8 -> n \in (0 .. 7) \cup {14}
          [] u = 14 -> lsb \in {\h9E, \hA1}
          [] u = 15 -> lsb \in {\h07, \h0A, \h15, \h18, \h1E, \h29, \h33, \h55, \h65}
          [] OTHER -> TRUE

---------------------------------------------------------------------------
(* C1.  While the awaiting-key flag is set, the host's execute phase (the  *)
(* step operation: the guard of main and the call of emulate_op) changes   *)
(* neither memory, V0..VF, I, PC, SP, the stack nor the framebuffer, and   *)
(* leaves the flag set; the flag goes from set to clear only in a step of  *)
(* the event phase that delivers a key-down.                               *)
C1_SuspendedStepIsNoOp ==
    [][ /\ (m_AwaitingKey # 0 /\ phase = "exec") =>
              /\ UNCHANGED << m_Memory, m_GeneralRegisters, m_InternalRegisters,
                              m_Stack, m_VideoMemory >>
              /\ m_AwaitingKey' = m_AwaitingKey
        /\ (m_AwaitingKey # 0 /\ m_AwaitingKey' = 0) =>
              /\ phase = "events"
              /\ \E k \in 0 .. 15 :
                     m_KeyPressed' = [m_KeyPressed EXCEPT ![k] = TRUE]
      ]_vars

(* An execute phase has passed while the machine awaited a key. *)
C1_Witness == stepOutcome = "suspended" /\ m_AwaitingKey # 0 /\ phase = "events"

---------------------------------------------------------------------------
(* C2.  Executing Fx0A sets the awaiting-key flag to a non-zero value and  *)
(* moves PC to the next instruction; while the flag is set, the Fx0A is    *)
(* the instruction just before PC; a key-down of key k while the flag is   *)
(* set stores k in Vx, changes no other register and clears the flag;      *)
(* key-up events, and key-down events while the flag is clear, change no   *)
(* register and leave the flag alone; PC and memory change only when an    *)
(* instruction executes, so the step after the key-down executes the       *)
(* instruction that follows the Fx0A.                                      *)
C2_Suspended ==
    m_AwaitingKey # 0 =>
        /\ PC >= 2 /\ InMem(PC - 1)
        /\ IsWaitKey(OpcodeAt(PC - 2))
        /\ m_AwaitingKey = 128 + FieldX(OpcodeAt(PC - 2))

C2_WaitKey ==
    [][ /\ (ExecutesFamily(15) /\ IsWaitKey(OpcodeAt(PC))) =>
              /\ m_AwaitingKey' # 0
              /\ PC' = PC + 2
        /\ C2_Suspended'
        /\ \A k \in HostKeys :
              /\ (KeyEvent(k, TRUE) /\ m_AwaitingKey # 0) =>
                    /\ m_GeneralRegisters' =
                          [m_GeneralRegisters EXCEPT
                              ![FieldX(OpcodeAt(PC - 2))] = k]
                    /\ m_AwaitingKey' = 0
              /\ (KeyEvent(k, FALSE) \/ (KeyEvent(k, TRUE) /\ m_AwaitingKey = 0)) =>
                    /\ m_GeneralRegisters' = m_GeneralRegisters
                    /\ m_AwaitingKey' = m_AwaitingKey
        /\ (~Executes /\ phase # "load") => (PC' = PC /\ m_Memory' = m_Memory)
      ]_vars

(* V0 = 0x33; F00A; key 7 went down; 7001 then ran: V0 = 8 at 0x206. *)
C2_Witness ==
    /\ OpcodeAt(\h202) = \hF00A
    /\ PC = \h206
    /\ m_GeneralRegisters[0] = 8
    /\ m_AwaitingKey = 0

---------------------------------------------------------------------------
(* C3.  An executed opcode that is in no row of the opcode table ends the  *)
(* run with the unknown-opcode outcome (not_handled: exit(2)).             *)
C3_UnknownOpcodeIsFatal ==
    [][ (Executes /\ InMem(PC + 1) /\ ~InOpcodeTable(OpcodeAt(PC))) =>
            status' = "exit2" ]_vars

---------------------------------------------------------------------------
(* C4.  The stack pointer is within 0..16 in every state, and a call or    *)
(* return touches only the 16 slots of m_Stack.                            *)
C4_StackBounded ==
    /\ SP \in 0 .. StackSize
    /\ stackAccess \subseteq 0 .. StackSize - 1

---------------------------------------------------------------------------
(* C5.  Every m_Memory index a step accesses is within 0..4095.            *)
C5_MemoryAccessInBounds == memAccess \subseteq 0 .. MemSize - 1

---------------------------------------------------------------------------
(* C6.  Once a program is loaded, PC is within 0..4094 in every state.     *)
C6_PCInRange == phase # "load" => PC \in 0 .. MemSize - 2

---------------------------------------------------------------------------
(* C7.  After Dxyn, VF = 1 exactly when some framebuffer cell that was 1   *)
(* before the draw is 0 after it, and VF = 0 otherwise.                    *)
C7_CollisionFlag ==
    [][ ExecutesFamily(13) =>
            VF' = B2N(\E i \in 0 .. VideoSize - 1 :
                          m_VideoMemory[i] = 1 /\ m_VideoMemory'[i] = 0) ]_vars

---------------------------------------------------------------------------
(* C8.  A program that sets Vx and Vy and then executes the same Dxyn      *)
(* twice on a blank framebuffer, with a sprite that has a set bit, ends    *)
(* the second draw with the framebuffer blank again and VF = 1.  (When x   *)
(* or y is F the register is set to 0, so that the flag the first draw     *)
(* leaves in VF does not move the second draw.)                            *)
TwoDrawsDone ==
    /\ phase # "load"
    /\ status = "running"
    /\ PC = \h20A
    /\ OpcodeAt(\h200) = \hA20E
    /\ FieldU(OpcodeAt(\h202)) = 6
    /\ FieldU(OpcodeAt(\h204)) = 6
    /\ FieldU(OpcodeAt(\h206)) = 13
    /\ OpcodeAt(\h208) = OpcodeAt(\h206)
    /\ FieldX(OpcodeAt(\h206)) = FieldX(OpcodeAt(\h202))
    /\ FieldY(OpcodeAt(\h206)) = FieldX(OpcodeAt(\h204))
    /\ (FieldX(OpcodeAt(\h206)) = 15 => FieldKK(OpcodeAt(\h202)) = 0)
    /\ (FieldY(OpcodeAt(\h206)) = 15 => FieldKK(OpcodeAt(\h204)) = 0)
    /\ \E h \in 0 .. FieldN(OpcodeAt(\h206)) - 1 : m_Memory[\h20E + h] # 0

C8_DrawTwiceRestores ==
    TwoDrawsDone =>
        /\ \A i \in 0 .. VideoSize - 1 : m_VideoMemory[i] = 0
        /\ VF = 1

---------------------------------------------------------------------------
(* C9.  Dxyn changes only framebuffer cells 64*((Vy+h) mod 32) +           *)
(* ((Vx+w) mod 64), 0 <= h < n, 0 <= w < 8, for the Vx and Vy the          *)
(* instruction started with, and every framebuffer cell is 0 or 1 in       *)
(* every state.                                                            *)
SpriteCells(vx, vy, n) ==
    { ScreenW * ((vy + h) % ScreenH) + ((vx + w) % ScreenW) :
        h \in 0 .. n - 1, w \in 0 .. 7 }

C9_DrawTargets ==
    [][ /\ ExecutesFamily(13) =>
              \A i \in 0 .. VideoSize - 1 :
                  m_VideoMemory'[i] # m_VideoMemory[i] =>
                      i \in SpriteCells(m_GeneralRegisters[FieldX(OpcodeAt(PC))],
                                        m_GeneralRegisters[FieldY(OpcodeAt(PC))],
                                        FieldN(OpcodeAt(PC)))
        /\ m_VideoMemory' # m_VideoMemory =>
              \A i \in 0 .. VideoSize - 1 : m_VideoMemory'[i] \in {0, 1}
      ]_vars

---------------------------------------------------------------------------
(* C10.  Executing 00E0 leaves every framebuffer cell 0 and the redraw     *)
(* flag set.                                                               *)
C10_ClearScreen ==
    [][ (Executes /\ InMem(PC + 1) /\ OpcodeAt(PC) = \h00E0) =>
            /\ \A i \in 0 .. VideoSize - 1 : m_VideoMemory'[i] = 0
            /\ m_ShouldRedraw' = TRUE ]_vars

---------------------------------------------------------------------------
(* C11.  Every executed instruction of the opcode table other than the     *)
(* control transfers 1nnn, 2nnn, 00EE and Bnnn leaves PC at the old PC     *)
(* plus 2, or plus 4 when it is a skip whose condition holds on the        *)
(* registers and keys before the step; none leaves PC where it was.        *)
IsControlTransfer(op) == FieldU(op) \in {1, 2, 11} \/ op = \h00EE

SkipTaken(op) ==
    LET u == FieldU(op)
        vx == m_GeneralRegisters[FieldX(op)]
        vy == m_GeneralRegisters[FieldY(op)]
    IN  CASE u = 3 -> vx = FieldKK(op)
          [] u = 4 -> vx # FieldKK(op)
          [] u = 5 -> vx = vy
          [] u = 9 -> vx # vy
          [] u = 14 /\ op % 256 = \h9E -> vx < 16 /\ m_KeyPressed[vx]
          [] u = 14 /\ op % 256 = \hA1 -> vx < 16 /\ ~m_KeyPressed[vx]
          [] OTHER -> FALSE

C11_PCAdvances ==
    [][ ( /\ Executes
          /\ InMem(PC + 1)
          /\ InOpcodeTable(OpcodeAt(PC))
          /\ ~IsControlTransfer(OpcodeAt(PC))
          /\ (FieldU(OpcodeAt(PC)) = 14 => m_GeneralRegisters[FieldX(OpcodeAt(PC))] < 16) )
        => PC' = PC + (IF SkipTaken(OpcodeAt(PC)) THEN 4 ELSE 2)
      ]_vars


---------------------------------------------------------------------------
(* C12.  8xy4, 8xy5 and 8xy7, for every x and y (y = F and x = y too),     *)
(* compute result and flag from the registers as they were before the      *)
(* instruction: 8xy4 gives VF = 1 exactly when Vx + Vy > 255 and           *)
(* Vx = (Vx + Vy) mod 256; 8xy5 gives VF = 1 exactly when Vx > Vy and      *)
(* Vx = (Vx - Vy) mod 256; 8xy7 gives VF = 1 exactly when Vy > Vx and      *)
(* Vy = (Vy - Vx) mod 256; when the destination is VF, VF holds the flag.  *)
ArithFlag(n, vx, vy) ==
    CASE n = 4 -> B2N(vx + vy > 255)
      [] n = 5 -> B2N(vx > vy)
      [] OTHER -> B2N(vy > vx)

ArithResult(n, vx, vy) ==
    CASE n = 4 -> (vx + vy) % 256
      [] n = 5 -> (vx - vy + 256) % 256
      [] OTHER -> (vy - vx + 256) % 256

ArithDest(op) == IF FieldN(op) = 7 THEN FieldY(op) ELSE FieldX(op)

C12_FlagArithmetic ==
    [][ (ExecutesFamily(8) /\ FieldN(OpcodeAt(PC)) \in {4, 5, 7}) =>
            LET op == OpcodeAt(PC)
                vx == m_GeneralRegisters[FieldX(op)]
                vy == m_GeneralRegisters[FieldY(op)]
            IN  /\ m_GeneralRegisters'[15] = ArithFlag(FieldN(op), vx, vy)
                /\ ArithDest(op) # 15 =>
                       m_GeneralRegisters'[ArithDest(op)] =
                           ArithResult(FieldN(op), vx, vy)
      ]_vars


---------------------------------------------------------------------------
(* C13.  A 2nnn at address A with room on the stack stores A in the slot   *)
(* SP names, raises SP by one and sets PC to nnn; a 00EE with at least one *)
(* entry on the stack sets PC to the top entry plus 2, lowers SP by one    *)
(* and leaves the stack's contents alone.  A program of k <= 16 nested     *)
(* calls followed by k returns is, whenever SP = i, either at its i-th     *)
(* call site on the way in or just past it on the way out, with the call   *)
(* sites of the outstanding calls in slots 0 .. i-1: it returns in the     *)
(* reverse order of the calls and ends with SP = 0 just past the first     *)
(* call.                                                                   *)
RunsNest(k) ==
    /\ phase # "load"
    /\ \A i \in 1 .. Len(NestRom(k)) : m_Memory[ProgramStart + i - 1] = NestRom(k)[i]

CallSite(i) == ProgramStart + 4 * i

C13_NestInvariant ==
    \A k \in {1, 2, StackSize} :
        RunsNest(k) =>
            \E i \in 0 .. k :
                /\ SP = i
                /\ \/ PC = CallSite(i)
                   \/ i < k /\ PC = CallSite(i) + 2
                /\ \A j \in 0 .. i - 1 : m_Stack[j] = CallSite(j)

C13_CallReturn ==
    /\ []C13_NestInvariant
    /\ [][ /\ (ExecutesFamily(2) /\ InStack(SP)) =>
                 /\ m_Stack' = [m_Stack EXCEPT ![SP] = PC]
                 /\ SP' = SP + 1
                 /\ PC' = FieldNNN(OpcodeAt(PC))
           /\ (Executes /\ InMem(PC + 1) /\ OpcodeAt(PC) = \h00EE /\ InStack(SP - 1)) =>
                 /\ PC' = m_Stack[SP - 1] + 2
                 /\ SP' = SP - 1
                 /\ m_Stack' = m_Stack
         ]_vars

(* Sixteen nested calls have been made and all sixteen have returned. *)
C13_Witness ==
    /\ RunsNest(StackSize)
    /\ PC = CallSite(0) + 2
    /\ SP = 0
    /\ m_Stack[StackSize - 1] = CallSite(StackSize - 1)


---------------------------------------------------------------------------
(* C14.  A tick of the host that covers f frames leaves the delay timer at *)
(* max(0, delay - f) and the sound timer at max(0, sound - f), each on its *)
(* own; and no step of the run raises a timer (so none wraps from 0 to a   *)
(* large value, and a timer at 0 stays 0) except the execution of Fx15 for *)
(* the delay timer and of Fx18 for the sound timer.                        *)
Max(a, b) == IF a > b THEN a ELSE b

ExecutesF(lsb) == ExecutesFamily(15) /\ OpcodeAt(PC) % 256 = lsb

Ticks(f) == RenderPhase(f) /\ f > 0 /\ ~paused

C14_TicksLowerTimers ==
    [][ \A f \in 0 .. MaxFrames :
            Ticks(f) => /\ m_DelayTimer' = Max(0, m_DelayTimer - f)
                        /\ m_SoundTimer' = Max(0, m_SoundTimer - f)
      ]_vars

C14_Timers ==
    [][ /\ \A f \in 0 .. MaxFrames :
               Ticks(f) => /\ m_DelayTimer' = Max(0, m_DelayTimer - f)
                           /\ m_SoundTimer' = Max(0, m_SoundTimer - f)
        /\ m_DelayTimer' > m_DelayTimer => ExecutesF(\h15)
        /\ m_SoundTimer' > m_SoundTimer => ExecutesF(\h18)
      ]_vars


---------------------------------------------------------------------------
(* C15.  An execution of emulate_op changes the delay timer only when the  *)
(* instruction is Fx15, the sound timer only when it is Fx18, the video    *)
(* memory only when it is 00E0 or Dxyn, and never the key state.           *)
C15_StepFrame ==
    [][ Executes =>
            /\ m_DelayTimer' # m_DelayTimer => ExecutesF(\h15)
            /\ m_SoundTimer' # m_SoundTimer => ExecutesF(\h18)
            /\ m_VideoMemory' # m_VideoMemory =>
                   /\ InMem(PC + 1)
                   /\ OpcodeAt(PC) = \h00E0 \/ FieldU(OpcodeAt(PC)) = 13
            /\ m_KeyPressed' = m_KeyPressed
      ]_vars


---------------------------------------------------------------------------
(* C16.  A load_program of a file of L > 0 bytes that fits from 0x200,     *)
(* called in any state of the machine (after steps have moved PC too),     *)
(* copies byte i of the file to memory[0x200 + i] for every i < L, changes *)
(* no byte of memory outside 0x200 .. 0x200 + L - 1, and leaves PC, SP, I, *)
(* V0..VF and both timers as they were.                                    *)
LoadedAt200(rom) ==
    [a \in 0 .. MemSize - 1 |->
        IF a >= ProgramStart /\ a < ProgramStart + Len(rom)
        THEN rom[a - ProgramStart + 1] ELSE m_Memory[a]]

C16_LoadFrame ==
    [][ \A rom \in ApiRoms :
            ( /\ load_program(rom)
              /\ Len(rom) > 0
              /\ ProgramStart + Len(rom) <= MemSize )
            => /\ m_Memory' = LoadedAt200(rom)
               /\ UNCHANGED << m_InternalRegisters, m_GeneralRegisters,
                               m_DelayTimer, m_SoundTimer >>
      ]_vars

---------------------------------------------------------------------------
(* C17.  A load_program of an empty file, or of a file longer than the     *)
(* room from 0x200 to the end of memory, fails: it reports an error and    *)
(* leaves memory and registers as they were; no load writes past the end   *)
(* of memory.                                                              *)
C17_LoadRejects ==
    [][ \A rom \in ApiRoms :
            load_program(rom) =>
               /\ status' # "undefined"
               /\ (Len(rom) = 0 \/ ProgramStart + Len(rom) > MemSize) =>
                      /\ stepOutcome' = "load_failed"
                      /\ UNCHANGED << m_Memory, m_InternalRegisters,
                                      m_GeneralRegisters, m_Stack >>
      ]_vars


---------------------------------------------------------------------------
(* C18.  After Fx1E the index register is the old index register plus Vx,  *)
(* and VF is 1 exactly when that new index register is greater than 0xFF,  *)
(* 0 otherwise.                                                            *)
C18_AddIFlag ==
    [][ ExecutesF(\h1E) =>
            /\ IR' = IR + m_GeneralRegisters[FieldX(OpcodeAt(PC))]
            /\ VF' = B2N(IR' > 255)
      ]_vars


---------------------------------------------------------------------------
(* C19.  In every reachable state bytes 0..79 of memory hold the font      *)
(* table, the five bytes of digit d at 5d .. 5d+4 (no instruction, Fx33    *)
(* and Fx55 with I below 80 included, changes them); and when the last     *)
(* instruction executed is Fx29, I is 5 times Vx.                          *)
FontIntact ==
    \A d \in 0 .. 15 : \A i \in 0 .. 4 : m_Memory[5 * d + i] = CHIP8_FONTS[5 * d + i + 1]

LastExecuted(mnemonic, fmt) ==
    stepOutcome = "executed" /\ logged.mnemonic = mnemonic /\ logged.fmt = fmt

SpriteAddressed ==
    LastExecuted("spritei", "I, V%01X") => IR = 5 * m_GeneralRegisters[logged.args[1]]

C19_FontImmutable == FontIntact /\ SpriteAddressed


---------------------------------------------------------------------------
(* C20.  decode gives a line for each of the 65536 opcodes: an opcode of   *)
(* the opcode table gets a mnemonic, an opcode outside the table gets the  *)
(* "unknown" placeholder and never an empty mnemonic, and the opcodes that *)
(* get a mnemonic are exactly those the executor accepts.                  *)
DecodedOpcode == logged.prefix[2] * 256 + logged.prefix[3]

HasMnemonic == logged.mnemonic \notin {"", "unknown"}

(* emulate_op's dispatch does not end in not_handled on this opcode. *)
ExecutorAccepts(op) == dispatch(Machine, op, 0, 0, FALSE).status # "exit2"

TableOpcodesNamed == (phase = "decoded" /\ InOpcodeTable(DecodedOpcode)) => HasMnemonic

C20_DecoderTotal ==
    phase = "decoded" =>
        /\ InOpcodeTable(DecodedOpcode) => HasMnemonic
        /\ ~InOpcodeTable(DecodedOpcode) => logged.mnemonic = "unknown"
        /\ HasMnemonic <=> ExecutorAccepts(DecodedOpcode)


---------------------------------------------------------------------------
(* C21.  Right after construction (before anything is loaded or run) the   *)
(* machine is fully determined: memory 0..79 holds the font and every      *)
(* byte from 80 on is 0, PC = 0x200, SP = 0, I = 0, V0..VF = 0, both       *)
(* timers are 0, the video memory is all 0, the redraw flag is false, no   *)
(* key is pressed and the awaiting-key flag is clear.                      *)
JustConstructed == phase = "load" /\ stepOutcome = "none"

C21_Constructed ==
    JustConstructed =>
        /\ \A a \in 0 .. 79 : m_Memory[a] = CHIP8_FONTS[a + 1]
        /\ \A a \in 80 .. MemSize - 1 : m_Memory[a] = 0
        /\ PC = ProgramStart /\ SP = 0 /\ IR = 0
        /\ \A r \in 0 .. 15 : m_GeneralRegisters[r] = 0
        /\ m_DelayTimer = 0 /\ m_SoundTimer = 0
        /\ \A i \in 0 .. VideoSize - 1 : m_VideoMemory[i] = 0
        /\ m_ShouldRedraw = FALSE
        /\ \A k \in 0 .. 15 : m_KeyPressed[k] = FALSE
        /\ m_AwaitingKey = 0


---------------------------------------------------------------------------
(* C22.  No execution of an instruction clears the redraw flag; the flag   *)
(* goes from set to clear only in the host's render phase, which has then  *)
(* read the video memory; and whenever the flag is clear the image the     *)
(* host last read is the current video memory (a host that has read        *)
(* nothing yet counting as holding the blank image).                       *)
BlankImage == [i \in 0 .. VideoSize - 1 |-> 0]

ImageRead == IF shown = << >> THEN BlankImage ELSE shown

RedrawKeptBySteps ==
    [][ (Executes /\ m_ShouldRedraw) => m_ShouldRedraw' ]_vars

C22_RedrawFlag ==
    [][ /\ (Executes /\ m_ShouldRedraw) => m_ShouldRedraw'
        /\ (m_ShouldRedraw /\ ~m_ShouldRedraw') =>
               phase = "render" /\ shown' = m_VideoMemory
        /\ ~m_ShouldRedraw' => ImageRead' = m_VideoMemory'
      ]_vars


---------------------------------------------------------------------------
(* C23.  Wherever a Cxkk is about to execute, the values it can leave in   *)
(* Vx are exactly r AND kk for the draws r of 0..255 (no bit outside kk,   *)
(* every draw possible); and when the instruction executed just before was *)
(* a Cykk with the same kk # 0, a value other than the one that Cykk left  *)
(* in Vy is among them.                                                    *)
AboutToExecute(u) ==
    /\ phase = "exec" /\ status = "running" /\ ShouldStep
    /\ InMem(PC + 1) /\ FieldU(OpcodeAt(PC)) = u

(* The values the call of emulate_op in this state can leave in Vx. *)
StepResults(x) == { c.V[x] : c \in emulate_op(Machine) }

MaskedDraws(kk) == { BitAnd(r, kk) : r \in 0 .. 255 }

RandWithinMask ==
    AboutToExecute(12) =>
        \A v \in StepResults(FieldX(OpcodeAt(PC))) :
            BitAnd(v, FieldKK(OpcodeAt(PC))) = v

C23_RandomDraw ==
    AboutToExecute(12) =>
        LET x == FieldX(OpcodeAt(PC))
            kk == FieldKK(OpcodeAt(PC))
        IN  /\ StepResults(x) = MaskedDraws(kk)
            /\ ( /\ LastExecuted("rand", "V%01X, 0x%02X")
                 /\ logged.args[2] = kk
                 /\ kk # 0 )
               => \E v \in StepResults(x) : v # m_GeneralRegisters[logged.args[1]]


---------------------------------------------------------------------------
(* C24.  A call of disassemble after a program of program_size bytes has   *)
(* been loaded returns one line for each of the addresses 0x200, 0x202,    *)
(* ... below 0x200 + program_size, the line of address a being the         *)
(* decoding of memory[a], memory[a+1] with a as its address; it reads no   *)
(* address outside the loaded program and changes nothing of the machine.  *)
ProgramAddresses ==
    { a \in ProgramStart .. ProgramStart + program_size - 1 : (a - ProgramStart) % 2 = 0 }

ProgramListing ==
    [k \in 1 .. Cardinality(ProgramAddresses) |->
        LET a == ProgramStart + 2 * (k - 1)
        IN  decode(a, m_Memory[a], m_Memory[a + 1])]

C24_Disassemble ==
    [][ (DisassembleCall /\ program_size > 0 /\ program_size % 2 = 0) =>
            /\ disassembly' = ProgramListing
            /\ memAccess' \subseteq ProgramStart .. ProgramStart + program_size - 1
            /\ UNCHANGED machineVars
      ]_vars

=============================================================================
